---- MODULE Spec2Model ----
(***************************************************************************)
(* The ChainReact Python SDK (src/lib/sdk/python/chainreact_sdk.py): a     *)
(* stateless HTTP client.  One action per public operation; the server is  *)
(* the environment.  Under Spec the server may answer anything (or not at  *)
(* all); under StubSpec it is a stub that stores what it is sent.          *)
(*                                                                         *)
(* Text is a sequence of fragments (concatenation is \o, "" is << >>).     *)
(* Python and JSON values are tagged records [t, v].                       *)
(* The HTTP stack is requests >= 2.27, whose Response.json() raises        *)
(* requests.exceptions.JSONDecodeError, a RequestException.                *)
(***************************************************************************)
EXTENDS Integers, Sequences, FiniteSets, TLC

VARIABLES config, headers, op, args, sent, resp, transport, outcome, store, created

vars == <<config, headers, op, args, sent, resp, transport, outcome, store, created>>

----------------------------------------------------------------------------
(* Bounds *)

\* longest data array the server puts in a response
MaxItems == 2
\* most entities of one kind the stub server stores
MaxStored == 1

----------------------------------------------------------------------------
(* Python / JSON values *)

None == [t |-> "None", v |-> << >>]
Str(s) == [t |-> "str", v |-> s]
Num(n) == [t |-> "int", v |-> n]
Bool(b) == [t |-> "bool", v |-> b]
Dict(f) == [t |-> "dict", v |-> f]
List(s) == [t |-> "list", v |-> s]

\* Python truth value, as `if x:` takes it
Truthy(x) ==
    CASE x.t = "None" -> FALSE
      [] x.t = "int"  -> x.v # 0
      [] x.t = "bool" -> x.v
      [] OTHER        -> DOMAIN x.v # {}

\* str(x), as an f-string formats x
PyStr(x) ==
    CASE x.t = "None" -> <<"None">>
      [] x.t = "str"  -> x.v
      [] x.t = "int"  -> <<ToString(x.v)>>
      [] x.t = "bool" -> IF x.v THEN <<"True">> ELSE <<"False">>
      [] OTHER        -> <<"repr:", x.t>>

\* a dict restricted to / extended by keys
Item(k, x) == [j \in {k} |-> x]

----------------------------------------------------------------------------
(* Results of evaluating Python code: a value, or a raised exception *)

NoExc == [type |-> "", msg |-> << >>]
Ok(x) == [kind |-> "return", value |-> x, exc |-> NoExc]
Raise(type, msg) == [kind |-> "raise", value |-> None, exc |-> [type |-> type, msg |-> msg]]

\* x[key]
Subscript(x, key) ==
    IF x.t = "dict"
    THEN IF key \in DOMAIN x.v THEN Ok(x.v[key]) ELSE Raise("KeyError", <<key>>)
    ELSE Raise("TypeError", <<"not subscriptable by str: ", x.t>>)

\* Cls(**x) for a dataclass with the given fields, none of which has a default
Construct(cls, fields, x) ==
    IF x.t = "dict" /\ DOMAIN x.v = fields
    THEN Ok([t |-> cls, v |-> x.v])
    ELSE Raise("TypeError", <<cls, "(**", x.t, ")">>)

\* ConstructEach as it would be if it cut the list to the first element
ConstructEach_truncating(cls, fields, x) ==
    IF x.t = "list"
    THEN IF \A i \in DOMAIN x.v : Construct(cls, fields, x.v[i]).kind = "return"
         THEN Ok(List([i \in DOMAIN x.v \cap {1} |-> Construct(cls, fields, x.v[i]).value]))
         ELSE Raise("TypeError", <<cls, "(**element)">>)
    ELSE IF x.t \in {"dict", "str"}
         THEN IF DOMAIN x.v = {}
              THEN Ok(List(<< >>))
              ELSE Raise("TypeError", <<cls, "(**str)">>)
         ELSE Raise("TypeError", <<"not iterable: ", x.t>>)

\* [Cls(**e) for e in x]
ConstructEach(cls, fields, x) ==
    IF x.t = "list"
    THEN IF \A i \in DOMAIN x.v : Construct(cls, fields, x.v[i]).kind = "return"
         THEN Ok(List([i \in DOMAIN x.v |-> Construct(cls, fields, x.v[i]).value]))
         ELSE Raise("TypeError", <<cls, "(**element)">>)
    ELSE IF x.t \in {"dict", "str"}
         THEN IF DOMAIN x.v = {}
              THEN Ok(List(<< >>))
              ELSE Raise("TypeError", <<cls, "(**str)">>)
         ELSE Raise("TypeError", <<"not iterable: ", x.t>>)

WorkflowFields ==
    {"id", "name", "description", "nodes", "connections", "variables",
     "configuration", "status", "created_at", "updated_at"}

WebhookFields == {"id", "name", "event_types", "target_url", "is_active", "created_at"}

----------------------------------------------------------------------------
(* Transport: ChainReactSDK.__init__ and ChainReactSDK._request *)

DefaultBaseUrl == <<"https://api.chainreact.dev">>

ChainReactConfig(api_key) == [api_key |-> api_key, base_url |-> DefaultBaseUrl]

\* SessionHeaders as it would be if the key were sent without the Bearer scheme
SessionHeaders_without_scheme(cfg) ==
    [h \in {"Authorization", "Content-Type"} |->
        IF h = "Authorization" THEN cfg.api_key ELSE <<"application/json">>]

SessionHeaders(cfg) ==
    [h \in {"Authorization", "Content-Type"} |->
        IF h = "Authorization" THEN <<"Bearer ">> \o cfg.api_key
        ELSE <<"application/json">>]

\* a body that is not JSON (empty, HTML, truncated)
NotJson == [t |-> "invalid", v |-> << >>]

\* what the server does with one request: nothing reaches the client, or a response
NoResponse(text) ==
    [got |-> FALSE, error |-> text, status |-> 0, reason |-> << >>, body |-> NotJson]
Response(status, reason, body) ==
    [got |-> TRUE, error |-> << >>, status |-> status, reason |-> reason, body |-> body]

\* the arguments of one _request call
Call(method, endpoint, kw) == [method |-> method, endpoint |-> endpoint, kw |-> kw]

\* url = f"{self.config.base_url}{endpoint}", and what session.request puts on the wire
HttpRequest(call) ==
    [method |-> call.method, url |-> config.base_url \o call.endpoint,
     kw |-> call.kw, headers |-> headers]

\* self.session.request(method, url, **kwargs)
session_request(call, rx) ==
    IF rx.got THEN Ok(rx) ELSE Raise("ConnectionError", rx.error)

\* response.raise_for_status()
raise_for_status(response, url) ==
    IF 400 <= response.status /\ response.status < 500
    THEN Raise("HTTPError", <<ToString(response.status), " Client Error: ">>
                             \o response.reason \o <<" for url: ">> \o url)
    ELSE IF 500 <= response.status /\ response.status < 600
    THEN Raise("HTTPError", <<ToString(response.status), " Server Error: ">>
                             \o response.reason \o <<" for url: ">> \o url)
    ELSE Ok(None)

\* response.json()
response_json(response) ==
    IF response.body.t = "invalid"
    THEN Raise("JSONDecodeError", <<"Expecting value: line 1 column 1 (char 0)">>)
    ELSE Ok(response.body)

\* the subclasses of requests.exceptions.RequestException
IsRequestException(type) ==
    type \in {"ConnectionError", "Timeout", "HTTPError", "JSONDecodeError"}

\* the try block of _request
try_request(call, rx) ==
    LET response == session_request(call, rx)
    IN  IF response.kind = "raise" THEN response
        ELSE LET checked == raise_for_status(rx, HttpRequest(call).url)
             IN  IF checked.kind = "raise" THEN checked ELSE response_json(rx)

\* error_message as it would be if the handler never read the body
error_message_ignores_body(response, e) == Str(e.msg)

\* the inner try of the HTTPError handler: the body's error field, else str(e)
error_message(response, e) ==
    LET error_data == response_json(response)
    IN  IF error_data.kind = "raise" THEN Str(e.msg)
        ELSE IF error_data.value.t # "dict" THEN Str(e.msg)
        ELSE IF "error" \in DOMAIN error_data.value.v
             THEN error_data.value.v["error"]
             ELSE Str(e.msg)

\* handle as it would be without the inner try/except around the body's parsing
handle_unguarded(rx, r) ==
    IF r.kind = "return" THEN r
    ELSE IF r.exc.type = "HTTPError"
    THEN LET error_data == response_json(rx)
         IN  IF error_data.kind = "raise" THEN error_data
             ELSE IF error_data.value.t # "dict"
             THEN Raise("AttributeError", <<"no attribute 'get': ", error_data.value.t>>)
             ELSE Raise("ChainReactSDKError",
                        <<"API Error: ", ToString(rx.status), " - ">>
                            \o PyStr(IF "error" \in DOMAIN error_data.value.v
                                     THEN error_data.value.v["error"]
                                     ELSE Str(r.exc.msg)))
    ELSE IF IsRequestException(r.exc.type)
    THEN Raise("ChainReactSDKError", <<"Request Error: ">> \o r.exc.msg)
    ELSE r

\* the two except clauses of _request
handle(rx, r) ==
    IF r.kind = "return" THEN r
    ELSE IF r.exc.type = "HTTPError"
    THEN Raise("ChainReactSDKError",
               <<"API Error: ", ToString(rx.status), " - ">>
                   \o PyStr(error_message(rx, r.exc)))
    ELSE IF IsRequestException(r.exc.type)
    THEN Raise("ChainReactSDKError", <<"Request Error: ">> \o r.exc.msg)
    ELSE r

\* _request as it would be if it tried once more after a failure
_request_retrying(call, rx) ==
    LET first == handle(rx, try_request(call, rx))
    IN  [sent |-> IF first.kind = "raise"
                  THEN <<HttpRequest(call), HttpRequest(call)>>
                  ELSE <<HttpRequest(call)>>,
         result |-> first]

\* _request: the requests it issued and how it ended
_request(call, rx) ==
    [sent |-> <<HttpRequest(call)>>, result |-> handle(rx, try_request(call, rx))]

----------------------------------------------------------------------------
(* One public operation: its _request call, then what it does with the body *)

\* r is what _request gave, result what the operation makes of it
Invoke(name, a, rx, r, result) ==
    /\ op' = name
    /\ args' = a
    /\ sent' = r.sent
    /\ resp' = rx
    /\ transport' = r.result
    /\ outcome' = result
    /\ UNCHANGED <<config, headers, created>>

\* x[key] of a result: an exception raised earlier propagates
Sub(r, key) == IF r.kind = "raise" THEN r ELSE Subscript(r.value, key)

\* Cls(**x) of a result
New(cls, fields, r) == IF r.kind = "raise" THEN r ELSE Construct(cls, fields, r.value)

\* [Cls(**e) for e in x] of a result
NewEach(cls, fields, r) ==
    IF r.kind = "raise" THEN r ELSE ConstructEach(cls, fields, r.value)

NoKw == << >>

\* a parameter's value: the argument the caller gave, else the parameter's default
Arg(given, name, default) == IF name \in DOMAIN given THEN given[name] ELSE default

\* def get_workflows(self, page: int = 1, limit: int = 20)
DefaultPage == 1
DefaultLimit == 20

\* granularity: str = 'day'
DefaultGranularity == Str(<<"day">>)

(* Workflow management *)

\* get_workflows_call as it would be with the two query parameters exchanged
get_workflows_call_swapped(page, limit) ==
    Call("GET", <<"/api/v1/workflows">>,
         Item("params", Dict([page |-> Num(limit), limit |-> Num(page)])))

get_workflows_call(page, limit) ==
    Call("GET", <<"/api/v1/workflows">>,
         Item("params", Dict([page |-> Num(page), limit |-> Num(limit)])))

get_workflows_result(response) ==
    LET data == NewEach("Workflow", WorkflowFields, Sub(response, "data"))
        pagination == Sub(response, "pagination")
    IN  IF data.kind = "raise" THEN data
        ELSE IF pagination.kind = "raise" THEN pagination
        ELSE Ok([t |-> "PaginatedResponse",
                 v |-> [data |-> data.value, pagination |-> pagination.value]])

\* the call get_workflows makes for the arguments the caller gave
get_workflows_bound(given) ==
    get_workflows_call(Arg(given, "page", DefaultPage), Arg(given, "limit", DefaultLimit))

get_workflows(given, rx) ==
    LET r == _request(get_workflows_bound(given), rx)
    IN  Invoke("get_workflows", given, rx, r, get_workflows_result(r.result))

get_workflow_call(workflow_id) ==
    Call("GET", <<"/api/v1/workflows/">> \o workflow_id, NoKw)

workflow_result(response) ==
    New("Workflow", WorkflowFields, Sub(response, "data"))

get_workflow(workflow_id, rx) ==
    LET r == _request(get_workflow_call(workflow_id), rx)
    IN  Invoke("get_workflow", [workflow_id |-> workflow_id],
               rx, r, workflow_result(r.result))

\* create_workflow_data as it would be if it copied every field of the request
create_workflow_data_with_nulls(workflow) ==
    [name |-> workflow.name, nodes |-> workflow.nodes,
     connections |-> workflow.connections, description |-> workflow.description,
     variables |-> workflow.variables, configuration |-> workflow.configuration]

\* the dict create_workflow builds from the request
create_workflow_data(workflow) ==
    LET base == [name |-> workflow.name, nodes |-> workflow.nodes,
                 connections |-> workflow.connections]
        d1 == IF Truthy(workflow.description)
              THEN base @@ Item("description", workflow.description) ELSE base
        d2 == IF Truthy(workflow.variables)
              THEN d1 @@ Item("variables", workflow.variables) ELSE d1
        d3 == IF Truthy(workflow.configuration)
              THEN d2 @@ Item("configuration", workflow.configuration) ELSE d2
    IN  d3

create_workflow_call(workflow) ==
    Call("POST", <<"/api/v1/workflows">>,
         Item("json", Dict(create_workflow_data(workflow))))

create_workflow(workflow, rx) ==
    LET r == _request(create_workflow_call(workflow), rx)
    IN  Invoke("create_workflow", [workflow |-> workflow],
               rx, r, workflow_result(r.result))

\* update_json as it would be if it dropped falsy values, as the create calls do
update_json_dropping_falsy(kwargs) ==
    Dict([k \in {j \in DOMAIN kwargs : Truthy(kwargs[j])} |-> kwargs[k]])

\* json=kwargs
update_json(kwargs) == Dict(kwargs)

update_workflow_call(workflow_id, kwargs) ==
    Call("PUT", <<"/api/v1/workflows/">> \o workflow_id, Item("json", update_json(kwargs)))

update_workflow(workflow_id, kwargs, rx) ==
    LET r == _request(update_workflow_call(workflow_id, kwargs), rx)
    IN  Invoke("update_workflow", [id |-> workflow_id, kwargs |-> kwargs],
               rx, r, workflow_result(r.result))

delete_workflow_call(workflow_id) ==
    Call("DELETE", <<"/api/v1/workflows/">> \o workflow_id, NoKw)

\* a function body that falls off its end returns None
delete_result(response) == IF response.kind = "raise" THEN response ELSE Ok(None)

delete_workflow(workflow_id, rx) ==
    LET r == _request(delete_workflow_call(workflow_id), rx)
    IN  Invoke("delete_workflow", [id |-> workflow_id],
               rx, r, delete_result(r.result))

\* data = {'input': input_data} if input_data else {}
execute_workflow_data(input_data) ==
    IF Truthy(input_data) THEN Item("input", input_data) ELSE << >>

\* execute_workflow_call as it would be if it posted to the workflow's own path
execute_workflow_call_on_entity_path(workflow_id, input_data) ==
    Call("POST", <<"/api/v1/workflows/">> \o workflow_id,
         Item("json", Dict(execute_workflow_data(input_data))))

execute_workflow_call(workflow_id, input_data) ==
    Call("POST", <<"/api/v1/workflows/">> \o workflow_id \o <<"/execute">>,
         Item("json", Dict(execute_workflow_data(input_data))))

execute_workflow_result(response) == Sub(Sub(response, "data"), "execution_id")

execute_workflow(workflow_id, input_data, rx) ==
    LET r == _request(execute_workflow_call(workflow_id, input_data), rx)
    IN  Invoke("execute_workflow", [id |-> workflow_id, input_data |-> input_data],
               rx, r, execute_workflow_result(r.result))

(* Webhook management *)

get_webhooks_call == Call("GET", <<"/api/v1/webhooks">>, NoKw)

get_webhooks_result(response) ==
    NewEach("WebhookSubscription", WebhookFields, Sub(response, "data"))

get_webhooks(rx) ==
    LET r == _request(get_webhooks_call, rx)
    IN  Invoke("get_webhooks", << >>,
               rx, r, get_webhooks_result(r.result))

\* create_webhook_data as it would be if it copied the optional fields untested
create_webhook_data_with_nulls(webhook) ==
    [name |-> webhook.name, event_types |-> webhook.event_types,
     target_url |-> webhook.target_url, secret_key |-> webhook.secret_key,
     headers |-> webhook.headers]

create_webhook_data(webhook) ==
    LET base == [name |-> webhook.name, event_types |-> webhook.event_types,
                 target_url |-> webhook.target_url]
        d1 == IF Truthy(webhook.secret_key)
              THEN base @@ Item("secret_key", webhook.secret_key) ELSE base
        d2 == IF Truthy(webhook.headers)
              THEN d1 @@ Item("headers", webhook.headers) ELSE d1
    IN  d2

create_webhook_call(webhook) ==
    Call("POST", <<"/api/v1/webhooks">>, Item("json", Dict(create_webhook_data(webhook))))

webhook_result(response) ==
    New("WebhookSubscription", WebhookFields, Sub(response, "data"))

create_webhook(webhook, rx) ==
    LET r == _request(create_webhook_call(webhook), rx)
    IN  Invoke("create_webhook", [webhook |-> webhook],
               rx, r, webhook_result(r.result))

update_webhook_call(webhook_id, kwargs) ==
    Call("PUT", <<"/api/v1/webhooks/">> \o webhook_id, Item("json", update_json(kwargs)))

update_webhook(webhook_id, kwargs, rx) ==
    LET r == _request(update_webhook_call(webhook_id, kwargs), rx)
    IN  Invoke("update_webhook", [id |-> webhook_id, kwargs |-> kwargs],
               rx, r, webhook_result(r.result))

delete_webhook_call(webhook_id) ==
    Call("DELETE", <<"/api/v1/webhooks/">> \o webhook_id, NoKw)

delete_webhook(webhook_id, rx) ==
    LET r == _request(delete_webhook_call(webhook_id), rx)
    IN  Invoke("delete_webhook", [id |-> webhook_id],
               rx, r, delete_result(r.result))

(* Analytics *)

usage_params(start_date, end_date, granularity) ==
    LET base == [granularity |-> granularity]
        p1 == IF Truthy(start_date) THEN base @@ Item("start_date", start_date) ELSE base
        p2 == IF Truthy(end_date) THEN p1 @@ Item("end_date", end_date) ELSE p1
    IN  p2

get_usage_analytics_call(start_date, end_date, granularity) ==
    Call("GET", <<"/api/v1/analytics/usage">>,
         Item("params", Dict(usage_params(start_date, end_date, granularity))))

get_usage_analytics_result(response) == Sub(response, "data")

\* the call get_usage_analytics makes for the arguments the caller gave
get_usage_analytics_bound(given) ==
    get_usage_analytics_call(Arg(given, "start_date", None), Arg(given, "end_date", None),
                             Arg(given, "granularity", DefaultGranularity))

get_usage_analytics(given, rx) ==
    LET r == _request(get_usage_analytics_bound(given), rx)
    IN  Invoke("get_usage_analytics", given, rx, r, get_usage_analytics_result(r.result))

----------------------------------------------------------------------------
(* The callers' inputs *)

ApiKeys == {<<"key-1">>, <<"key-2">>}

\* a configuration with the default base_url and one with the caller's own
Configs ==
    {ChainReactConfig(k) : k \in ApiKeys}
        \cup {[ChainReactConfig(<<"key-2">>) EXCEPT !.base_url = <<"http://localhost:3000">>]}

Ids == {<<"wf", "1">>, <<"wf", "2">>}
HookIds == {<<"wh", "1">>, <<"wh", "2">>}

Names == {Str(<<"A">>), Str(<<"X">>)}

Graphs ==
    {[nodes |-> List(<< >>), connections |-> List(<< >>)],
     [nodes |-> List(<<Dict([id |-> Str(<<"trigger">>)])>>),
      connections |-> List(<<Dict([source |-> Str(<<"trigger">>)])>>)]}

\* absent, explicitly empty, and non-empty
Descriptions == {None, Str(<< >>), Str(<<"d">>)}
Mappings == {None, Dict(<< >>), Dict([k |-> Num(1)])}

CreateWorkflowRequests ==
    {[name |-> n, nodes |-> g.nodes, connections |-> g.connections,
      description |-> d, variables |-> v, configuration |-> c] :
        n \in Names, g \in Graphs, d \in Descriptions, v \in Mappings, c \in Mappings}

CreateWebhookRequests ==
    {[name |-> Str(<<"hook">>), event_types |-> e, target_url |-> Str(<<"https://t">>),
      secret_key |-> k, headers |-> h] :
        e \in {List(<< >>), List(<<Str(<<"workflow.completed">>)>>)},
        k \in Descriptions, h \in Mappings}

\* every dict with keys among those of `choices` and values from its sets
DictsOver(choices) ==
    UNION {[K -> UNION {choices[k] : k \in K}] : K \in SUBSET DOMAIN choices}

WellTyped(f, choices) == \A k \in DOMAIN f : f[k] \in choices[k]

WorkflowPatches ==
    LET choices == [name |-> {Str(<<"X">>), None},
                    description |-> {Str(<< >>), Str(<<"d2">>)},
                    variables |-> {Dict(<< >>), None}]
    IN  {f \in DictsOver(choices) : WellTyped(f, choices)}

WebhookPatches ==
    LET choices == [name |-> {Str(<<"X">>), None},
                    is_active |-> {Bool(FALSE), Bool(TRUE)},
                    target_url |-> {Str(<< >>), Str(<<"https://u">>)}]
    IN  {f \in DictsOver(choices) : WellTyped(f, choices)}

Inputs == {None, Dict(<< >>), Dict([x |-> Num(1)])}

Pages == {1, 2}
Limits == {5, 20}

\* the arguments a caller may give get_workflows: any of page and limit, or none
PageArgs ==
    LET choices == [page |-> Pages, limit |-> Limits]
    IN  {f \in DictsOver(choices) : WellTyped(f, choices)}

Dates == {None, Str(<<"2024-01-01">>)}
\* granularity is typed str: nothing keeps a caller to day, week and month
Granularities == {Str(<<"day">>), Str(<<"week">>), Str(<<"month">>), Str(<<"hour">>)}

\* the arguments a caller may give get_usage_analytics
UsageArgs ==
    LET choices == [start_date |-> Dates, end_date |-> Dates,
                    granularity |-> Granularities]
    IN  {f \in DictsOver(choices) : WellTyped(f, choices)}

----------------------------------------------------------------------------
(* What a server may do with a request *)

Statuses == {200, 204, 304, 404, 500}

Reason(status) ==
    CASE status = 200 -> <<"OK">>
      [] status = 201 -> <<"Created">>
      [] status = 204 -> <<"No Content">>
      [] status = 304 -> <<"Not Modified">>
      [] status = 404 -> <<"Not Found">>
      [] status = 429 -> <<"Too Many Requests">>
      [] OTHER        -> <<"Internal Server Error">>

SampleWorkflow ==
    [id |-> Str(<<"wf", "1">>), name |-> Str(<<"A">>), description |-> None,
     nodes |-> List(<< >>), connections |-> List(<< >>), variables |-> None,
     configuration |-> None, status |-> Str(<<"draft">>),
     created_at |-> Str(<<"t0">>), updated_at |-> Str(<<"t0">>)]

SampleWebhook ==
    [id |-> Str(<<"wh", "1">>), name |-> Str(<<"hook">>),
     event_types |-> List(<<Str(<<"workflow.completed">>)>>),
     target_url |-> Str(<<"https://t">>), is_active |-> Bool(TRUE),
     created_at |-> Str(<<"t0">>)]

\* a second entity of each kind, to tell the order of a list
OtherWorkflow ==
    [SampleWorkflow EXCEPT !.id = Str(<<"wf", "2">>), !.name = Str(<<"B">>)]

OtherWebhook ==
    [SampleWebhook EXCEPT !.id = Str(<<"wh", "2">>), !.is_active = Bool(FALSE)]

SeqsUpTo(S, n) == UNION {[1..k -> S] : k \in 0..n}

Entities ==
    {Dict(SampleWorkflow), Dict(OtherWorkflow), Dict(SampleWebhook), Dict(OtherWebhook)}

DataValues ==
    {List(items) : items \in SeqsUpTo(Entities, MaxItems)}
        \cup {Dict(SampleWorkflow), Dict(SampleWebhook),
              Dict([execution_id |-> Str(<<"exec-1">>)]), Dict(<< >>)}

ErrorValues == {Str(<<"workflow not found">>), None}

Paginations ==
    {Dict([page |-> Num(1), limit |-> Num(n), total |-> Num(3)]) : n \in {1, 5}}

Optional(key, values) == {<< >>} \cup {Item(key, x) : x \in values}

Bodies ==
    {NotJson, List(<< >>)}
        \cup {Dict(e @@ d @@ p) : e \in Optional("error", ErrorValues),
                                  d \in Optional("data", DataValues),
                                  p \in Optional("pagination", Paginations)}

Reactions ==
    {NoResponse(<<"Connection refused">>), NoResponse(<<"Read timed out">>)}
        \cup {Response(s, Reason(s), b) : s \in Statuses, b \in Bodies}

----------------------------------------------------------------------------
(* The SDK against an arbitrary server *)

NoResult == [kind |-> "none", value |-> None, exc |-> NoExc]

NoStore == [workflows |-> << >>, webhooks |-> << >>]

\* the caller holds no created workflow
NoCreated == [kind |-> "none", request |-> << >>, workflow |-> None]

Init ==
    /\ config \in Configs
    /\ headers = SessionHeaders(config)
    /\ op = "none"
    /\ args = << >>
    /\ sent = << >>
    /\ resp = NoResponse(<< >>)
    /\ transport = NoResult
    /\ outcome = NoResult
    /\ store = NoStore
    /\ created = NoCreated

\* the caller has taken the result of its call and is about to make the next one
Return ==
    /\ op # "none"
    /\ op' = "none"
    /\ args' = << >>
    /\ sent' = << >>
    /\ resp' = NoResponse(<< >>)
    /\ transport' = NoResult
    /\ outcome' = NoResult
    /\ created' = NoCreated
    /\ UNCHANGED <<config, headers, store>>

\* created_workflow = sdk.create_workflow(workflow_request): the caller keeps the
\* request and the Workflow returned for it, for its next call
Keep ==
    /\ op = "create_workflow"
    /\ outcome.kind = "return"
    /\ created' = [kind |-> "kept", request |-> args.workflow, workflow |-> outcome.value]
    /\ op' = "none"
    /\ args' = << >>
    /\ sent' = << >>
    /\ resp' = NoResponse(<< >>)
    /\ transport' = NoResult
    /\ outcome' = NoResult
    /\ UNCHANGED <<config, headers, store>>

\* the caller is between two calls
Idle == op = "none"

Next ==
    \/ Return
    \/ Idle /\ \E given \in PageArgs, rx \in Reactions :
          get_workflows(given, rx) /\ UNCHANGED store
    \/ Idle /\ \E id \in Ids, rx \in Reactions :
          get_workflow(id, rx) /\ UNCHANGED store
    \/ Idle /\ \E workflow \in CreateWorkflowRequests, rx \in Reactions :
          create_workflow(workflow, rx) /\ UNCHANGED store
    \/ Idle /\ \E id \in Ids, kwargs \in WorkflowPatches, rx \in Reactions :
          update_workflow(id, kwargs, rx) /\ UNCHANGED store
    \/ Idle /\ \E id \in Ids, rx \in Reactions :
          delete_workflow(id, rx) /\ UNCHANGED store
    \/ Idle /\ \E id \in Ids, input_data \in Inputs, rx \in Reactions :
          execute_workflow(id, input_data, rx) /\ UNCHANGED store
    \/ Idle /\ \E rx \in Reactions :
          get_webhooks(rx) /\ UNCHANGED store
    \/ Idle /\ \E webhook \in CreateWebhookRequests, rx \in Reactions :
          create_webhook(webhook, rx) /\ UNCHANGED store
    \/ Idle /\ \E id \in HookIds, kwargs \in WebhookPatches, rx \in Reactions :
          update_webhook(id, kwargs, rx) /\ UNCHANGED store
    \/ Idle /\ \E id \in HookIds, rx \in Reactions :
          delete_webhook(id, rx) /\ UNCHANGED store
    \/ Idle /\ \E given \in UsageArgs, rx \in Reactions :
          get_usage_analytics(given, rx) /\ UNCHANGED store

Spec == Init /\ [][Next]_vars

----------------------------------------------------------------------------
(* The stub server: it stores what it is sent, merges a PUT body into the  *)
(* stored entity, and answers with the success and error envelopes.        *)

Prefix(kind) == IF kind = "workflows" THEN "wf" ELSE "wh"
StubId(kind, n) == <<Prefix(kind), ToString(n)>>

Stored(st) == Cardinality(DOMAIN st.workflows) + Cardinality(DOMAIN st.webhooks)

FreshId(kind, st) ==
    StubId(kind, CHOOSE n \in 1..(MaxStored + 1) :
                    /\ StubId(kind, n) \notin DOMAIN st[kind]
                    /\ \A m \in 1..(n - 1) : StubId(kind, m) \in DOMAIN st[kind])

Field(body, k, default) == IF k \in DOMAIN body THEN body[k] ELSE default

\* the entity the stub stores for a create body: missing optional fields are null
StubEntity(kind, id, body) ==
    IF kind = "workflows"
    THEN [id |-> Str(id), name |-> Field(body, "name", None),
          description |-> Field(body, "description", None),
          nodes |-> Field(body, "nodes", List(<< >>)),
          connections |-> Field(body, "connections", List(<< >>)),
          variables |-> Field(body, "variables", None),
          configuration |-> Field(body, "configuration", None),
          status |-> Str(<<"draft">>), created_at |-> Str(<<"t0">>),
          updated_at |-> Str(<<"t0">>)]
    ELSE [id |-> Str(id), name |-> Field(body, "name", None),
          event_types |-> Field(body, "event_types", List(<< >>)),
          target_url |-> Field(body, "target_url", None),
          is_active |-> Bool(TRUE), created_at |-> Str(<<"t0">>)]

\* a PUT body merged into the stored entity
StubMerge(entity, body) ==
    [k \in DOMAIN entity \cup DOMAIN body |->
        IF k \in DOMAIN body THEN body[k] ELSE entity[k]]

\* the stored entities of one kind, in id order
StubListed(kind, st) ==
    LET present == {n \in 1..(MaxStored + 1) : StubId(kind, n) \in DOMAIN st[kind]}
        rank(n) == Cardinality({m \in present : m <= n})
    IN  [i \in 1..Cardinality(present) |->
            Dict(st[kind][StubId(kind, CHOOSE n \in present : rank(n) = i)])]

\* elements (page-1)*limit+1 .. page*limit of items
StubPage(items, page, limit) ==
    LET from == (page - 1) * limit
        upto == IF page * limit < Len(items) THEN page * limit ELSE Len(items)
    IN  IF from >= upto THEN << >> ELSE SubSeq(items, from + 1, upto)

StubOk(status, data) == Response(status, Reason(status), Dict([data |-> data]))
StubNotFound ==
    Response(404, Reason(404), Dict([error |-> Str(<<"workflow not found">>)]))
StubFull ==
    Response(429, Reason(429), Dict([error |-> Str(<<"quota exceeded">>)]))

\* the stub's answer to one request and its store afterwards; `bare` says whether
\* it acknowledges a DELETE with 204 and no body or with 200 and a JSON body
Stub(st, call, bare) ==
    LET root == Head(call.endpoint)
        kind == IF root \in {"/api/v1/workflows", "/api/v1/workflows/"}
                THEN "workflows" ELSE "webhooks"
        id   == SubSeq(call.endpoint, 2, 3)
        body == IF "json" \in DOMAIN call.kw THEN call.kw["json"].v ELSE << >>
        same == [reply |-> StubNotFound, store |-> st]
    IN  IF root = "/api/v1/analytics/usage"
        THEN [reply |-> StubOk(200, List(<< >>)), store |-> st]
        ELSE IF Len(call.endpoint) = 1
        THEN IF call.method = "POST"
             THEN IF Stored(st) >= MaxStored
                  THEN [reply |-> StubFull, store |-> st]
                  ELSE LET new == FreshId(kind, st)
                           entity == StubEntity(kind, new, body)
                       IN  [reply |-> StubOk(201, Dict(entity)),
                            store |-> [st EXCEPT ![kind] = (new :> entity) @@ @]]
             ELSE IF "params" \in DOMAIN call.kw
             THEN LET q == call.kw["params"].v
                      all == StubListed(kind, st)
                  IN  [reply |->
                         Response(200, Reason(200),
                            Dict([data |-> List(StubPage(all, q.page.v, q.limit.v)),
                                  pagination |-> Dict([page |-> q.page, limit |-> q.limit,
                                                       total |-> Num(Len(all))])])),
                       store |-> st]
             ELSE [reply |-> StubOk(200, List(StubListed(kind, st))), store |-> st]
        ELSE IF id \notin DOMAIN st[kind] THEN same
        ELSE IF Len(call.endpoint) = 4
        THEN [reply |-> StubOk(200, Dict([execution_id |-> Str(<<"exec-">> \o id)])),
              store |-> st]
        ELSE IF call.method = "GET"
        THEN [reply |-> StubOk(200, Dict(st[kind][id])), store |-> st]
        ELSE IF call.method = "PUT"
        THEN LET merged == StubMerge(st[kind][id], body)
             IN  [reply |-> StubOk(200, Dict(merged)),
                  store |-> [st EXCEPT ![kind] = (id :> merged) @@ @]]
        ELSE [reply |-> IF bare THEN Response(204, Reason(204), NotJson)
                        ELSE StubOk(200, None),
              store |-> [st EXCEPT ![kind] = [i \in DOMAIN @ \ {id} |-> @[i]]]]

\* what the callers send the stub
StubCreateWorkflowRequests ==
    {w \in CreateWorkflowRequests :
        /\ w.name = Str(<<"A">>)
        /\ w.nodes # List(<< >>)
        /\ w.configuration = None
        /\ w.variables # Dict(<< >>)}

StubCreateWebhookRequests ==
    {w \in CreateWebhookRequests : w.event_types # List(<< >>) /\ w.headers = None}

StubNext ==
    \/ Return
    \/ Keep
    \/ Idle /\ \E given \in PageArgs :
          LET s == Stub(store, get_workflows_bound(given), TRUE)
          IN  get_workflows(given, s.reply) /\ store' = s.store
    \/ Idle /\ \E id \in Ids :
          LET s == Stub(store, get_workflow_call(id), TRUE)
          IN  get_workflow(id, s.reply) /\ store' = s.store
    \/ Idle /\ \E workflow \in StubCreateWorkflowRequests :
          LET s == Stub(store, create_workflow_call(workflow), TRUE)
          IN  create_workflow(workflow, s.reply) /\ store' = s.store
    \/ Idle /\ \E id \in Ids, kwargs \in WorkflowPatches :
          LET s == Stub(store, update_workflow_call(id, kwargs), TRUE)
          IN  update_workflow(id, kwargs, s.reply) /\ store' = s.store
    \/ Idle /\ \E id \in Ids, bare \in BOOLEAN :
          LET s == Stub(store, delete_workflow_call(id), bare)
          IN  delete_workflow(id, s.reply) /\ store' = s.store
    \/ Idle /\ \E id \in Ids, input_data \in Inputs :
          LET s == Stub(store, execute_workflow_call(id, input_data), TRUE)
          IN  execute_workflow(id, input_data, s.reply) /\ store' = s.store
    \/ Idle /\ LET s == Stub(store, get_webhooks_call, TRUE)
               IN  get_webhooks(s.reply) /\ store' = s.store
    \/ Idle /\ \E webhook \in StubCreateWebhookRequests :
          LET s == Stub(store, create_webhook_call(webhook), TRUE)
          IN  create_webhook(webhook, s.reply) /\ store' = s.store
    \/ Idle /\ \E id \in HookIds, kwargs \in WebhookPatches :
          LET s == Stub(store, update_webhook_call(id, kwargs), TRUE)
          IN  update_webhook(id, kwargs, s.reply) /\ store' = s.store
    \/ Idle /\ \E id \in HookIds, bare \in BOOLEAN :
          LET s == Stub(store, delete_webhook_call(id), bare)
          IN  delete_webhook(id, s.reply) /\ store' = s.store
    \/ Idle /\ \E given \in UsageArgs :
          LET s == Stub(store, get_usage_analytics_bound(given), TRUE)
          IN  get_usage_analytics(given, s.reply) /\ store' = s.store

StubSpec == Init /\ [][StubNext]_vars

----------------------------------------------------------------------------
(* Vocabulary of the properties *)

\* a call has been made and its result is at hand
Done == op # "none"

ErrorStatus(status) == 400 <= status /\ status < 600
SuccessStatus(status) == 200 <= status /\ status < 300

IsSDKError(r) == r.kind = "raise" /\ r.exc.type = "ChainReactSDKError"

\* the error of the HTTP kind for a status: the status is the text after "API Error: "
HTTPKind(r, status) ==
    /\ IsSDKError(r)
    /\ Len(r.exc.msg) >= 3
    /\ r.exc.msg[1] = "API Error: "
    /\ r.exc.msg[2] = ToString(status)

\* the error of the network kind: a message and no status
NetworkKind(r) ==
    /\ IsSDKError(r)
    /\ Len(r.exc.msg) >= 1
    /\ r.exc.msg[1] = "Request Error: "

HasErrorField(body) == body.t = "dict" /\ "error" \in DOMAIN body.v

Contains(text, part) ==
    \E i \in 0..(Len(text) - Len(part)) : SubSeq(text, i + 1, i + Len(part)) = part

\* the JSON body of the request the last call sent
SentBody == sent[1].kw["json"].v

\* the transport returned a JSON object that holds key
Has(key) ==
    /\ transport.kind = "return"
    /\ transport.value.t = "dict"
    /\ key \in DOMAIN transport.value.v

\* the response's data array and pagination block
DataArray == transport.value.v["data"].v
PaginationBlock == transport.value.v["pagination"]

\* the response holds a data array whose elements are objects with exactly fields
ArrayOf(fields) ==
    /\ Has("data")
    /\ transport.value.v["data"].t = "list"
    /\ \A i \in DOMAIN DataArray :
          DataArray[i].t = "dict" /\ DOMAIN DataArray[i].v = fields

\* the call an operation makes for its arguments
CallOf(name, a) ==
    CASE name = "get_workflows"    -> get_workflows_bound(a)
      [] name = "get_workflow"     -> get_workflow_call(a.workflow_id)
      [] name = "create_workflow"  -> create_workflow_call(a.workflow)
      [] name = "update_workflow"  -> update_workflow_call(a.id, a.kwargs)
      [] name = "delete_workflow"  -> delete_workflow_call(a.id)
      [] name = "execute_workflow" -> execute_workflow_call(a.id, a.input_data)
      [] name = "get_webhooks"     -> get_webhooks_call
      [] name = "create_webhook"   -> create_webhook_call(a.webhook)
      [] name = "update_webhook"   -> update_webhook_call(a.id, a.kwargs)
      [] name = "delete_webhook"   -> delete_webhook_call(a.id)
      [] name = "get_usage_analytics" -> get_usage_analytics_bound(a)

----------------------------------------------------------------------------
(* Properties *)

\* C1: every failure of a public operation (no response, an HTTP error status, a
\* body that is not JSON or not of the expected shape) reaches the caller as a
\* ChainReactSDKError: the operation raises, and raises nothing else.
C1_SingleErrorType ==
    Done =>
        /\ (~resp.got \/ ErrorStatus(resp.status) \/ resp.body.t = "invalid")
              => outcome.kind = "raise"
        /\ outcome.kind = "raise" => outcome.exc.type = "ChainReactSDKError"

\* C2: on an HTTP error status s with a JSON object body holding an `error` field e,
\* the operation raises the SDK error of the HTTP kind, whose status is s and whose
\* message contains e (as Python formats it).
C2_ErrorFieldReachesCaller ==
    (Done /\ resp.got /\ ErrorStatus(resp.status) /\ HasErrorField(resp.body)) =>
        /\ HTTPKind(outcome, resp.status)
        /\ Contains(SubSeq(outcome.exc.msg, 4, Len(outcome.exc.msg)),
                    PyStr(resp.body.v["error"]))

C2_Witness ==
    /\ op = "get_workflow"
    /\ resp.status = 404
    /\ resp.body = Dict([error |-> Str(<<"workflow not found">>)])
    /\ outcome.kind = "raise"
    /\ outcome.exc.msg = <<"API Error: ", "404", " - ", "workflow not found">>

\* C3: on an HTTP error status with a body that is not JSON, or is JSON without an
\* `error` field, the operation still raises the SDK error of the HTTP kind, with
\* the status and the generic message that starts with the status.
C3_FallbackMessage ==
    (Done /\ resp.got /\ ErrorStatus(resp.status) /\ ~HasErrorField(resp.body)) =>
        /\ HTTPKind(outcome, resp.status)
        /\ Len(outcome.exc.msg) >= 5
        /\ outcome.exc.msg[4] = ToString(resp.status)
        /\ outcome.exc.msg[5] \in {" Client Error: ", " Server Error: "}

C3_Witness ==
    /\ Done
    /\ resp.status = 500
    /\ resp.body = NotJson
    /\ HTTPKind(outcome, 500)

\* C4: the transport raises the network kind exactly when no response was obtained;
\* whenever a response was received, what it raises is of the HTTP kind and carries
\* the response's status.
C4_NetworkKindIffNoResponse ==
    (Done /\ transport.kind = "raise") =>
        /\ NetworkKind(transport) <=> ~resp.got
        /\ resp.got => HTTPKind(transport, resp.status)

\* C5: every call of the transport issues exactly one HTTP request and ends by
\* returning the parsed JSON body or by raising the SDK error of one of its two kinds.
C5_OneRequestOneOutcome ==
    Done =>
        /\ Len(sent) = 1
        /\ \/ /\ transport.kind = "return"
              /\ resp.got
              /\ resp.body.t # "invalid"
              /\ transport.value = resp.body
           \/ NetworkKind(transport)
           \/ HTTPKind(transport, resp.status)

C5_Witness ==
    /\ Done
    /\ ~resp.got
    /\ Len(sent) = 1
    /\ NetworkKind(transport)

\* C6: the body create_workflow sends always holds name, nodes and connections with
\* the request's values, holds description, variables, configuration only if the
\* request has them (then with the request's value), and never holds a null.
C6_CreatePayload ==
    op = "create_workflow" =>
        LET w == args.workflow
        IN  /\ DOMAIN SentBody \subseteq
                  {"name", "nodes", "connections", "description", "variables",
                   "configuration"}
            /\ \A k \in {"name", "nodes", "connections"} :
                  k \in DOMAIN SentBody /\ SentBody[k] = w[k]
            /\ \A k \in {"description", "variables", "configuration"} :
                  k \in DOMAIN SentBody => (w[k] # None /\ SentBody[k] = w[k])

C6_Witness ==
    /\ op = "create_workflow"
    /\ args.workflow.description = None
    /\ args.workflow.variables = Dict([k |-> Num(1)])
    /\ DOMAIN SentBody = {"name", "nodes", "connections", "variables"}

\* C7: in the body of a create call an optional field's key is omitted exactly when
\* the field is absent (None) on the request, so an explicit empty value is sent.
C7_OmittedExactlyWhenAbsent ==
    /\ op = "create_workflow" =>
          \A k \in {"description", "variables", "configuration"} :
              k \in DOMAIN SentBody <=> args.workflow[k] # None
    /\ op = "create_webhook" =>
          \A k \in {"secret_key", "headers"} :
              k \in DOMAIN SentBody <=> args.webhook[k] # None

\* C8: update_workflow and update_webhook send one PUT to the entity's path whose
\* JSON body is exactly the caller's patch; the stub server that merges it leaves
\* every field outside the patch, and every other entity, unchanged.
C8_UpdateSendsExactlyThePatch ==
    [][op' \in {"update_workflow", "update_webhook"} =>
        LET kind  == IF op' = "update_workflow" THEN "workflows" ELSE "webhooks"
            other == IF op' = "update_workflow" THEN "webhooks" ELSE "workflows"
            root  == IF op' = "update_workflow"
                     THEN "/api/v1/workflows/" ELSE "/api/v1/webhooks/"
            id    == args'.id
            patch == args'.kwargs
        IN  /\ Len(sent') = 1
            /\ sent'[1].method = "PUT"
            /\ sent'[1].url = config.base_url \o <<root>> \o id
            /\ sent'[1].kw = Item("json", Dict(patch))
            /\ store'[other] = store[other]
            /\ DOMAIN store'[kind] = DOMAIN store[kind]
            /\ \A i \in DOMAIN store[kind] : \A k \in DOMAIN store[kind][i] :
                  (i # id \/ k \notin DOMAIN patch) =>
                      /\ k \in DOMAIN store'[kind][i]
                      /\ store'[kind][i][k] = store[kind][i][k]
            /\ id \in DOMAIN store[kind] =>
                  \A k \in DOMAIN patch : store'[kind][id][k] = patch[k]
    ]_vars

C8_Witness ==
    /\ op = "update_workflow"
    /\ args.id \in DOMAIN store.workflows
    /\ args.kwargs = [name |-> None]
    /\ store.workflows[args.id].name = None
    /\ store.workflows[args.id].description = Str(<<"d">>)
    /\ outcome.kind = "return"

\* C9: execute_workflow sends {} when no input is given and {"input": v} for any
\* supplied input v, and on success returns data.execution_id of the response.
C9_ExecuteBodyAndResult ==
    op = "execute_workflow" =>
        /\ SentBody = IF args.input_data = None THEN << >>
                      ELSE [input |-> args.input_data]
        /\ (/\ transport.kind = "return"
            /\ transport.value.t = "dict"
            /\ "data" \in DOMAIN transport.value.v
            /\ transport.value.v["data"].t = "dict"
            /\ "execution_id" \in DOMAIN transport.value.v["data"].v)
              => outcome = Ok(transport.value.v["data"].v["execution_id"])

\* C10: delete_workflow and delete_webhook return None on every success status and
\* raise the HTTP kind with the response's status on every other status.
C10_DeleteOutcome ==
    (op \in {"delete_workflow", "delete_webhook"} /\ resp.got) =>
        IF SuccessStatus(resp.status)
        THEN outcome = Ok(None)
        ELSE HTTPKind(outcome, resp.status)

\* C11: every operation issues its request with the method and path of the interface
\* table, and the URL is the configured base_url followed by that path, with the
\* caller's id unchanged in it.
C11_MethodAndPath ==
    Done =>
        LET workflows == <<"/api/v1/workflows">>
            workflow  == <<"/api/v1/workflows/">>
            webhooks  == <<"/api/v1/webhooks">>
            webhook   == <<"/api/v1/webhooks/">>
            line ==
                CASE op = "get_workflows"    -> <<"GET", workflows>>
                  [] op = "get_workflow"     -> <<"GET", workflow \o args.workflow_id>>
                  [] op = "create_workflow"  -> <<"POST", workflows>>
                  [] op = "update_workflow"  -> <<"PUT", workflow \o args.id>>
                  [] op = "delete_workflow"  -> <<"DELETE", workflow \o args.id>>
                  [] op = "execute_workflow" ->
                         <<"POST", workflow \o args.id \o <<"/execute">> >>
                  [] op = "get_webhooks"     -> <<"GET", webhooks>>
                  [] op = "create_webhook"   -> <<"POST", webhooks>>
                  [] op = "update_webhook"   -> <<"PUT", webhook \o args.id>>
                  [] op = "delete_webhook"   -> <<"DELETE", webhook \o args.id>>
                  [] op = "get_usage_analytics" -> <<"GET", <<"/api/v1/analytics/usage">> >>
        IN  /\ sent[1].method = line[1]
            /\ sent[1].url = config.base_url \o line[2]

C11_Witness ==
    /\ op = "execute_workflow"
    /\ config.base_url = <<"http://localhost:3000">>
    /\ args.id = <<"wf", "2">>
    /\ sent[1].method = "POST"
    /\ sent[1].url = <<"http://localhost:3000", "/api/v1/workflows/", "wf", "2", "/execute">>

C13_ListWorkflows ==
    op = "get_workflows" =>
        LET page  == IF "page" \in DOMAIN args THEN args.page ELSE 1
            limit == IF "limit" \in DOMAIN args THEN args.limit ELSE 20
        IN  /\ sent[1].kw = Item("params", Dict([page |-> Num(page), limit |-> Num(limit)]))
            /\ (ArrayOf(WorkflowFields) /\ Has("pagination")) => outcome.kind = "return"
            /\ (outcome.kind = "return" /\ transport.value.v["data"].t = "list") =>
                  /\ outcome.value.t = "PaginatedResponse"
                  /\ DOMAIN outcome.value.v = {"data", "pagination"}
                  /\ outcome.value.v.data.t = "list"
                  /\ Len(outcome.value.v.data.v) = Len(DataArray)
                  /\ \A i \in DOMAIN DataArray :
                        outcome.value.v.data.v[i] =
                            [t |-> "Workflow", v |-> DataArray[i].v]
                  /\ outcome.value.v.pagination = PaginationBlock

C13_Witness ==
    /\ op = "get_workflows"
    /\ args = [limit |-> 5]
    /\ sent[1].kw = Item("params", Dict([page |-> Num(1), limit |-> Num(5)]))
    /\ outcome.kind = "return"
    /\ Len(DataArray) = 2
    /\ DataArray[1] = Dict(OtherWorkflow)
    /\ outcome.value.v.data.v[1].v.name = Str(<<"B">>)
    /\ outcome.value.v.data.v[2].v.name = Str(<<"A">>)

\* the PaginatedResponse get_workflows returned and the limit its pagination reports
Page == outcome.value.v
ReportedLimit == Page.pagination.v["limit"].v

ReportsLimit ==
    /\ op = "get_workflows"
    /\ outcome.kind = "return"
    /\ Page.pagination.t = "dict"
    /\ "limit" \in DOMAIN Page.pagination.v
    /\ Page.pagination.v["limit"].t = "int"

\* C14 as stated: every PaginatedResponse get_workflows returns has a data sequence
\* no longer than the limit its pagination block reports.
C14_LengthWithinLimit == ReportsLimit => Len(Page.data.v) <= ReportedLimit

\* C14: the data sequence of every PaginatedResponse get_workflows returns is as long
\* as the data array the server sent (empty for an empty object in its place), so it
\* is within the reported limit exactly when the server's own array is.
C14_LengthIsTheServers ==
    (op = "get_workflows" /\ outcome.kind = "return") =>
        LET served == IF transport.value.v["data"].t = "list" THEN Len(DataArray) ELSE 0
        IN  /\ Len(Page.data.v) = served
            /\ ReportsLimit => (Len(Page.data.v) <= ReportedLimit <=> served <= ReportedLimit)

C14_Witness ==
    /\ ReportsLimit
    /\ ReportedLimit = 5
    /\ Len(DataArray) = 2
    /\ Len(Page.data.v) = 2

\* C15: create_workflow followed by get_workflow on the returned id, against the
\* storing stub, returns a Workflow whose name, nodes and connections equal the
\* request's and whose description, variables and configuration are present
\* (not None) exactly when the request supplied them, then with the request's value.
C15_CreateThenGet ==
    (/\ op = "get_workflow"
     /\ created.kind = "kept"
     /\ args.workflow_id = created.workflow.v.id.v) =>
        /\ outcome.kind = "return"
        /\ outcome.value.t = "Workflow"
        /\ \A k \in {"name", "nodes", "connections"} :
              outcome.value.v[k] = created.request[k]
        /\ \A k \in {"description", "variables", "configuration"} :
              /\ outcome.value.v[k] # None <=> created.request[k] # None
              /\ outcome.value.v[k] # None => outcome.value.v[k] = created.request[k]

\* the query parameters of the request the last call sent
SentQuery == sent[1].kw["params"].v

\* C16: get_usage_analytics always sends granularity in the query, the caller's or
\* day when none is given, and always one of day, week and month; it sends
\* start_date and end_date each only when the caller supplied it, then with the
\* caller's value; and it returns the response's data unchanged.
C16_UsageQuery ==
    op = "get_usage_analytics" =>
        /\ DOMAIN sent[1].kw = {"params"}
        /\ DOMAIN SentQuery \subseteq {"granularity", "start_date", "end_date"}
        /\ "granularity" \in DOMAIN SentQuery
        /\ SentQuery["granularity"] =
               IF "granularity" \in DOMAIN args THEN args.granularity ELSE Str(<<"day">>)
        /\ SentQuery["granularity"] \in {Str(<<"day">>), Str(<<"week">>), Str(<<"month">>)}
        /\ \A k \in {"start_date", "end_date"} :
              k \in DOMAIN SentQuery =>
                  /\ k \in DOMAIN args
                  /\ args[k] # None
                  /\ SentQuery[k] = args[k]
        /\ Has("data") => outcome = Ok(transport.value.v["data"])

\* C17: the body create_webhook sends always holds name, event_types and target_url
\* with the request's values, and holds secret_key and headers each only when the
\* request has it (then with the request's value); get_webhooks sends no query
\* parameters and, for a data array of webhook objects, returns one
\* WebhookSubscription per element, in the same order.
C17_Webhooks ==
    /\ op = "create_webhook" =>
          LET w == args.webhook
          IN  /\ DOMAIN sent[1].kw = {"json"}
              /\ DOMAIN SentBody \subseteq
                    {"name", "event_types", "target_url", "secret_key", "headers"}
              /\ \A k \in {"name", "event_types", "target_url"} :
                    k \in DOMAIN SentBody /\ SentBody[k] = w[k]
              /\ \A k \in {"secret_key", "headers"} :
                    k \in DOMAIN SentBody => (w[k] # None /\ SentBody[k] = w[k])
    /\ op = "get_webhooks" =>
          /\ args = << >>
          /\ sent[1].kw = << >>
          /\ ArrayOf(WebhookFields) => outcome.kind = "return"
          /\ (outcome.kind = "return" /\ transport.value.v["data"].t = "list") =>
                /\ outcome.value.t = "list"
                /\ Len(outcome.value.v) = Len(DataArray)
                /\ \A i \in DOMAIN DataArray :
                      outcome.value.v[i] = [t |-> "WebhookSubscription", v |-> DataArray[i].v]

C17_Witness ==
    /\ op = "create_webhook"
    /\ args.webhook.secret_key = None
    /\ args.webhook.headers = Dict([k |-> Num(1)])
    /\ DOMAIN SentBody = {"name", "event_types", "target_url", "headers"}
    /\ SentBody["headers"] = Dict([k |-> Num(1)])

====
